---- MODULE Spec2Model ----
(***************************************************************************)
(* State-machine model of the TaskOnEmbed class (src/src/embed.ts, the     *)
(* wallet-proxy protocol variant, lines 35-606): the host side of the      *)
(* iframe bridge, its lifecycle (init / destroy), the wallet provider      *)
(* registry and watcher, the wallet event forwarding hub and the           *)
(* guest-callable method table.                                            *)
(*                                                                         *)
(* JavaScript runs one job at a time, so every action below is one         *)
(* synchronous run of code: from a call (or a timer, a message from the    *)
(* guest, a settled promise) up to the next await or the return.           *)
(*                                                                         *)
(* Strings whose content the code inspects or concatenates (provider keys, *)
(* event names, listener ids, routes) are sequences of characters/tokens,  *)
(* so that split, includes, startsWith and template concatenation are      *)
(* computed and not assumed.  The empty string is <<>>.                    *)
(***************************************************************************)
EXTENDS Naturals, Sequences, FiniteSets, Bags, TLC

\* ---------------------------------------------------------------- bounds
\* Number of init() calls made on the instance during one page load.
MaxInits == 2
\* Number of host-to-guest calls that may be awaiting the guest's answer.
MaxPending == 2
\* Number of forwarding handler closures created during one page load.
MaxHandlers == 3

\* ------------------------------------------------------------ JS strings
Str(t) == <<t>>
EmptyStr == <<>>

Includes(s, t) == \E i \in 1..Len(s) : s[i] = t

StartsWith(s, t) == Len(s) > 0 /\ s[1] = t

\* String.prototype.split(sep): the segments between the separators.
RECURSIVE SplitFrom(_, _, _)
SplitFrom(s, sep, acc) ==
  IF s = <<>> THEN <<acc>>
  ELSE IF Head(s) = sep THEN <<acc>> \o SplitFrom(Tail(s), sep, <<>>)
  ELSE SplitFrom(Tail(s), sep, Append(acc, Head(s)))

Split(s, sep) == SplitFrom(s, sep, <<>>)

\* --------------------------------------------------------- the host page
\* Objects that may sit on the host window; what each can do.
NoObject == "null"
Caps(obj) ==
  CASE obj = "eth" -> {"request", "on", "removeListener"}
    [] obj = "eth2" -> {"request", "on", "removeListener"}
    [] obj = "okx" -> {"request", "on", "removeListener"}
    [] obj = "onto" -> {"request"}
    [] obj = "bketh" -> {"request", "on", "removeListener"}
    [] OTHER -> {}

\* window as a tree: the set of property paths that hold an object, each
\* path a sequence of property names.
PathEthereum == <<Str("ethereum")>>
PathOkx == <<Str("okxwallet")>>
PathOnto == <<Str("onto")>>
PathBitkeep == <<Str("bitkeep")>>
PathBitkeepEthereum == <<Str("bitkeep"), Str("ethereum")>>

ObjectAt(path) ==
  CASE path = PathEthereum -> "eth"
    [] path = PathOkx -> "okx"
    [] path = PathOnto -> "onto"
    [] path = PathBitkeep -> "bitkeep"
    [] path = PathBitkeepEthereum -> "bketh"
    [] OTHER -> NoObject

\* Another extension may overwrite a global with its own provider object.
ReplacementOf(obj) == IF obj = "eth" THEN "eth2" ELSE obj
ReplaceablePaths == {PathEthereum}

InjectablePaths ==
  {PathEthereum, PathOkx, PathOnto, PathBitkeep, PathBitkeepEthereum}

KeyEthereum == Str("ethereum")
KeyOkx == Str("okxwallet")
KeyOnto == Str("onto")
KeyBitkeepEthereum == <<"bitkeep", ".", "ethereum">>

VARIABLES
  \* fields of the TaskOnEmbed instance
  iframe, container, penpal, penpalConnection, connectedProvider,
  connectedAddress, initialized, currentRoute, availableProviders,
  eventListeners, walletWatcher,
  \* the host page and the bridge library
  containerInDom, domFrames, frameSrc, conn, initPc, timers, tickSleep,
  calls, win, replaced, handlers, savedRoute, location, sessionId,
  guestProviders, delivered,
  \* what the last step did, and the watcher's last notification
  last, lastTickKeys

fields ==
  <<iframe, container, penpal, penpalConnection, connectedProvider,
    connectedAddress, initialized, currentRoute, availableProviders,
    eventListeners, walletWatcher>>

env ==
  <<containerInDom, domFrames, frameSrc, conn, initPc, timers, tickSleep,
    calls, win, replaced, handlers, savedRoute, location, sessionId,
    guestProviders, delivered>>

env_but_calls ==
  <<containerInDom, domFrames, frameSrc, conn, initPc, timers, tickSleep,
    win, replaced, handlers, savedRoute, location, sessionId,
    guestProviders, delivered>>

vars == <<fields, env, last, lastTickKeys>>


\* The object that the window holds at a path now.
WindowObject(path) ==
  IF path \in replaced THEN ReplacementOf(ObjectAt(path)) ELSE ObjectAt(path)

\* ------------------------------------------------- pure helpers of the code
\* availableProviders is a JS object: its entries in insertion order.
NoProviders == <<>>
NoListeners == [k \in {} |-> [j \in {} |-> 0]]

Entry(k, o) == [key |-> k, obj |-> o]

\* A faulty variant of ObjectKeys: only the key added last.
ObjectKeysNewestOnly(rec) ==
  IF rec = <<>> THEN <<>> ELSE <<rec[Len(rec)].key>>

\* Object.keys(record), as a list and as a set.
ObjectKeys(rec) == [i \in 1..Len(rec) |-> rec[i].key]
KeySet(rec) == {rec[i].key : i \in 1..Len(rec)}

\* detectWalletProviders: the four well-known globals that are present,
\* in the order the code probes them.
DetectWalletProviders(w) ==
  (IF PathEthereum \in w
   THEN <<Entry(KeyEthereum, WindowObject(PathEthereum))>> ELSE <<>>)
  \o (IF PathOkx \in w THEN <<Entry(KeyOkx, WindowObject(PathOkx))>> ELSE <<>>)
  \o (IF PathOnto \in w THEN <<Entry(KeyOnto, WindowObject(PathOnto))>> ELSE <<>>)
  \o (IF PathBitkeep \in w /\ PathBitkeepEthereum \in w
      THEN <<Entry(KeyBitkeepEthereum, WindowObject(PathBitkeepEthereum))>>
      ELSE <<>>)

\* The loop of getOriginalProvider: provider = provider?.[key] per segment,
\* null as soon as one is missing.
\* A faulty variant of Traverse: the object at the full path, with no check
\* that the segments are there.
TraverseUnchecked(w, prefix, rest) == WindowObject(prefix \o rest)

RECURSIVE Traverse(_, _, _)
Traverse(w, prefix, rest) ==
  IF rest = <<>> THEN WindowObject(prefix)
  ELSE LET p == Append(prefix, Head(rest))
       IN IF p \in w THEN Traverse(w, p, Tail(rest)) ELSE NoObject

\* A faulty variant of GetOriginalProvider: the provider is the object that
\* the registry holds for the key.
GetOriginalProviderFromRegistry(w, providerKey) ==
  IF providerKey \in KeySet(availableProviders)
  THEN (CHOOSE i \in 1..Len(availableProviders) :
          availableProviders[i].key = providerKey).obj
  ELSE NoObject

GetOriginalProvider(w, providerKey) ==
  IF Includes(providerKey, ".")
  THEN Traverse(w, <<>>, Split(providerKey, "."))
  ELSE IF <<providerKey>> \in w THEN WindowObject(<<providerKey>>) ELSE NoObject

\* `${providerKey}:handlers` and `${eventName}:${listenerId}`
HandlersKey(providerKey) == providerKey \o <<":">> \o Str("handlers")
SlotKey(eventName, listenerId) == eventName \o <<":">> \o listenerId

\* Map.get / Map.set / Map.delete on a function with a finite domain.
MapHas(m, k) == k \in DOMAIN m
MapSet(m, k, v) == [x \in DOMAIN m \cup {k} |-> IF x = k THEN v ELSE m[x]]
MapDelete(m, k) == [x \in DOMAIN m \ {k} |-> m[x]]

\* --------------------------------------------------------------- inputs
Routes == {<<"/", "tasks">>, <<"quests">>}
\* What the guest may report as its route: any string, the empty one too.
ReportedRoutes == Routes \cup {EmptyStr}
ListenerIds == {Str("L1"), Str("L2")}

LoginRequests ==
  { [type |-> "Email", account |-> "a@b.com", signature |-> "s",
     timestamp |-> <<"1">>, username |-> "u", provider |-> NoObject],
    [type |-> "WalletAddress", account |-> "0xA", signature |-> "s",
     timestamp |-> <<"1">>, username |-> "u", provider |-> "eth"],
    [type |-> "WalletAddress", account |-> "0xA", signature |-> "s",
     timestamp |-> <<"1">>, username |-> "u", provider |-> NoObject] }

\* A wallet login whose account is the empty string.
WalletLoginNoAccount ==
  [type |-> "WalletAddress", account |-> "", signature |-> "s",
   timestamp |-> <<"1">>, username |-> "u", provider |-> "eth"]

\* Logins made while another one may still be with the guest: two wallets
\* with their accounts, and an email login.
OverlappingLogins ==
  { [type |-> "WalletAddress", account |-> "0xA", signature |-> "s",
     timestamp |-> <<"1">>, username |-> "u", provider |-> "eth"],
    [type |-> "WalletAddress", account |-> "0xB", signature |-> "s",
     timestamp |-> <<"1">>, username |-> "u", provider |-> "okx"],
    [type |-> "Email", account |-> "a@b.com", signature |-> "s",
     timestamp |-> <<"1">>, username |-> "u", provider |-> NoObject] }

HexMessages == {Str("0x68656c6c6f")}

\* Provider keys the guest may pass: nested ones (present or not, with a
\* further or an empty segment) and the outer object on its own.
ProviderKeys ==
  {KeyBitkeepEthereum, KeyBitkeepEthereum \o <<".", "x">>, <<"bitkeep", ".">>,
   Str("bitkeep")}

Runs == 1..MaxInits
NoNavigation == [to |-> <<>>, state |-> <<>>, from |-> <<>>]

\* A host-to-guest call over the proxy of connection c, its arguments a list
\* of strings; cont is the init run whose continuation awaits the answer
\* (0: none does).
Call(m, args, c, cont) == [m |-> m, args |-> args, conn |-> c, cont |-> cont]

Did(op, arg, res, sent, emitted) ==
  last' = [op |-> op, arg |-> arg, res |-> res, sent |-> sent, emitted |-> emitted]

NoArg == <<>>

BoolStr(b) == IF b THEN Str("true") ELSE Str("false")

\* ------------------------------------------------------------------ Init
Init ==
  /\ iframe = 0
  /\ container = FALSE
  /\ penpal = 0
  /\ penpalConnection = 0
  /\ connectedProvider = NoObject
  /\ connectedAddress = ""
  /\ initialized = FALSE
  /\ currentRoute = EmptyStr
  /\ availableProviders = NoProviders
  /\ eventListeners = NoListeners
  /\ walletWatcher = 0
  /\ containerInDom \in BOOLEAN
  /\ domFrames = {}
  /\ frameSrc = [r \in Runs |-> EmptyStr]
  /\ conn = [r \in Runs |-> "none"]
  /\ initPc = [r \in Runs |-> "idle"]
  /\ timers = {}
  /\ tickSleep = {}
  /\ calls = EmptyBag
  /\ win = {}
  /\ replaced = {}
  /\ delivered = [r \in Runs |-> {}]
  /\ handlers = <<>>
  /\ savedRoute = EmptyStr
  /\ location = NoNavigation
  /\ sessionId = EmptyStr
  /\ guestProviders = [r \in Runs |-> {}]
  /\ last = [op |-> "new", arg |-> NoArg, res |-> "ok", sent |-> <<>>, emitted |-> <<>>]
  /\ lastTickKeys = {}


\* ------------------------------------------------------------- lifecycle
BaseUrl == <<"https://x.test", "/">>

\* createIframe: the frame's src, from the saved route when there is one.
CreateIframeSrc(saved) ==
  IF saved # EmptyStr
  THEN LET baseUrl == IF BaseUrl[Len(BaseUrl)] = "/"
                      THEN SubSeq(BaseUrl, 1, Len(BaseUrl) - 1) ELSE BaseUrl
           routePath == IF StartsWith(saved, "/") THEN saved ELSE <<"/">> \o saved
       IN baseUrl \o routePath
  ELSE BaseUrl

\* A faulty variant of RemoveItem: the record is left in place.
RemoveItemSkipped(saved) == saved

\* The saved-route record after createIframe: removed when it was there.
RemoveItem(saved) == EmptyStr

\* init() up to its first await: renderIframe, then initPenpal up to the
\* handshake.  r numbers the init() calls of this page load.
\* A faulty variant of ResolveContainer: the container is taken as given, with
\* no look into the document.
ResolveContainerUnchecked(inDom) == TRUE

\* resolveContainer: document.querySelector finds the element or returns
\* null.
ResolveContainer(inDom) == inDom

InitStart(r) ==
  /\ initPc[r] = "idle"
  /\ \A q \in Runs : q < r => initPc[q] # "idle"
  /\ IF ~ResolveContainer(containerInDom)
     THEN /\ initPc' = [initPc EXCEPT ![r] = "failed"]
          /\ Did("init", NoArg, "ContainerNotFound", <<>>, <<>>)
          /\ UNCHANGED <<fields, containerInDom, sessionId, guestProviders,
                         delivered, domFrames, frameSrc, conn, timers,
                         tickSleep, calls, win, replaced, handlers,
                         savedRoute, location, lastTickKeys>>
     ELSE /\ container' = TRUE
          /\ iframe' = r
          /\ domFrames' = domFrames \cup {r}
          /\ frameSrc' = [frameSrc EXCEPT ![r] = CreateIframeSrc(savedRoute)]
          /\ savedRoute' = RemoveItem(savedRoute)
          /\ penpalConnection' = r
          /\ conn' = [conn EXCEPT ![r] = "handshaking"]
          /\ initPc' = [initPc EXCEPT ![r] = "handshake"]
          /\ lastTickKeys' = {}
          /\ Did("init", NoArg, "pending", <<>>, <<>>)
          /\ UNCHANGED <<penpal, connectedProvider, connectedAddress,
                         initialized, currentRoute, availableProviders,
                         eventListeners, walletWatcher, containerInDom,
                         sessionId, guestProviders, delivered, timers,
                         tickSleep, calls, win, replaced, handlers, location>>

\* The tail of init(): startWalletProviderWatcher, then initialized = true.
\* The interval started by init run r is timer r.
InitFinish(r) ==
  /\ timers' = timers \cup {r}
  /\ walletWatcher' = r
  /\ initialized' = TRUE
  /\ initPc' = [initPc EXCEPT ![r] = "done"]

\* A faulty variant of InitAfterNotify: a failed notification ends init() with the
\* error.
InitAfterNotifyRethrows(r, ok) ==
  IF ok
  THEN InitFinish(r)
  ELSE /\ initPc' = [initPc EXCEPT ![r] = "failed"]
       /\ UNCHANGED <<timers, walletWatcher, initialized>>

\* init() after its notifyIframeOfProviders has settled (ok: without an
\* error): the catch swallows the error, so the tail of init() runs either
\* way.
InitAfterNotify(r, ok) == InitFinish(r)

\* The guest completes the handshake of connection r: initPenpal resumes and
\* stores the proxy, initWalletProviders scans the window, and
\* notifyIframeOfProviders either returns at its guard or starts its delay.
HandshakeDone(r) ==
  /\ initPc[r] = "handshake"
  /\ conn[r] = "handshaking"
  /\ conn' = [conn EXCEPT ![r] = "ready"]
  /\ penpal' = r
  /\ availableProviders' = DetectWalletProviders(win)
  /\ IF iframe = 0
     THEN InitAfterNotify(r, TRUE)
     ELSE /\ initPc' = [initPc EXCEPT ![r] = "sleep"]
          /\ UNCHANGED <<timers, walletWatcher, initialized>>
  /\ Did("handshake", NoArg, "ok", <<>>, <<>>)
  /\ UNCHANGED <<iframe, container, penpalConnection, connectedProvider,
                 connectedAddress, currentRoute, eventListeners,
                 containerInDom, sessionId, guestProviders, delivered,
                 domFrames, frameSrc, tickSleep, calls, win, replaced,
                 handlers, savedRoute, location, lastTickKeys>>

\* The 100 ms delay of init's notifyIframeOfProviders is over: the call to
\* the guest is sent and awaited, or this.penpal is null by now, the
\* TypeError is caught, and init runs to its end.
InitSleepDone(r) ==
  /\ initPc[r] = "sleep"
  /\ IF penpal = 0
     THEN /\ InitAfterNotify(r, FALSE)
          /\ Did("initNotify", NoArg, "caught", <<>>, <<>>)
          /\ UNCHANGED calls
     ELSE /\ BagCardinality(calls) < MaxPending
          /\ LET c == Call("setupWalletProviders",
                           ObjectKeys(availableProviders), penpal, r)
             IN /\ calls' = calls (+) SetToBag({c})
                /\ Did("initNotify", NoArg, "sent", <<c>>, <<>>)
          /\ initPc' = [initPc EXCEPT ![r] = "setup"]
          /\ UNCHANGED <<timers, walletWatcher, initialized>>
  /\ UNCHANGED <<iframe, container, penpal, penpalConnection,
                 connectedProvider, connectedAddress, currentRoute,
                 availableProviders, eventListeners, containerInDom,
                 sessionId, guestProviders, delivered, domFrames, frameSrc,
                 conn, tickSleep, win, replaced, handlers, savedRoute,
                 location, lastTickKeys>>

\* The awaited setupWalletProviders call of init run r was rejected by
\* destroy(): the catch swallows it and init runs to its end.
InitResume(r) ==
  /\ initPc[r] = "rejected"
  /\ InitAfterNotify(r, FALSE)
  /\ Did("initNotify", NoArg, "caught", <<>>, <<>>)
  /\ UNCHANGED <<iframe, container, penpal, penpalConnection,
                 connectedProvider, connectedAddress, currentRoute,
                 availableProviders, eventListeners, containerInDom,
                 sessionId, guestProviders, delivered, domFrames, frameSrc,
                 conn, tickSleep, calls, win, replaced, handlers, savedRoute,
                 location, lastTickKeys>>

\* The guest's setupWalletProviders(providerKeys): the guest takes the list
\* as the complete set of providers and sets up a proxy for each.
GuestSetup(held, providerKeys) ==
  {providerKeys[i] : i \in 1..Len(providerKeys)}

\* A faulty variant of CatchForwardError: the handlers of the triple whose
\* forwarding failed are detached.
CatchForwardErrorDetaches(hs, c) ==
  [i \in 1..Len(hs) |->
     IF <<hs[i].pk, hs[i].ev, hs[i].lid>> = SubSeq(c.args, 1, 3)
     THEN [hs[i] EXCEPT !.on = FALSE] ELSE hs[i]]

\* The .catch of a forwarding handler, given the handlers and the rejected
\* call: the error is logged and the handlers stay as they are.
CatchForwardError(hs, c) == hs

\* A faulty variant of GuestAnswer: a rejected notification of a tick stops the
\* watcher.
GuestAnswerStopsWatcher(c, ok) ==
  /\ c \in BagToSet(calls)
  /\ conn[c.conn] = "ready"
  /\ calls' = calls (-) SetToBag({c})
  /\ IF c.cont # 0 /\ initPc[c.cont] = "setup"
     THEN InitAfterNotify(c.cont, ok)
     ELSE /\ timers' = IF ~ok /\ c.m = "setupWalletProviders"
                       THEN timers \ {walletWatcher} ELSE timers
          /\ walletWatcher' = IF ~ok /\ c.m = "setupWalletProviders"
                              THEN 0 ELSE walletWatcher
          /\ UNCHANGED <<initialized, initPc>>
  /\ guestProviders' =
       IF c.m = "setupWalletProviders"
       THEN [guestProviders EXCEPT ![c.conn] = GuestSetup(@, c.args)]
       ELSE guestProviders
  /\ handlers' = IF c.m = "onWalletEvent" /\ ~ok
                  THEN CatchForwardError(handlers, c) ELSE handlers
  /\ Did("guestAnswer", <<Str(c.m), BoolStr(ok)>> \o c.args,
         IF ok THEN "resolved" ELSE "rejected", <<>>, <<>>)
  /\ UNCHANGED <<iframe, container, penpal, penpalConnection,
                 connectedProvider, connectedAddress, currentRoute,
                 availableProviders, eventListeners, containerInDom,
                 sessionId, domFrames, frameSrc, conn, tickSleep, win,
                 replaced, savedRoute, location, lastTickKeys, delivered>>

\* The guest processes a pending call and answers it (ok: it resolves,
\* otherwise it rejects).  Only init's notification has a
\* continuation that changes state, and it does the same on either answer
\* (try/catch).
GuestAnswerEffects(c, ok) ==
  /\ c \in BagToSet(calls)
  /\ conn[c.conn] = "ready"
  /\ calls' = calls (-) SetToBag({c})
  /\ IF c.cont # 0 /\ initPc[c.cont] = "setup"
     THEN InitAfterNotify(c.cont, ok)
     ELSE UNCHANGED <<timers, walletWatcher, initialized, initPc>>
  /\ guestProviders' =
       IF c.m = "setupWalletProviders"
       THEN [guestProviders EXCEPT ![c.conn] = GuestSetup(@, c.args)]
       ELSE guestProviders
  /\ handlers' = IF c.m = "onWalletEvent" /\ ~ok
                  THEN CatchForwardError(handlers, c) ELSE handlers
  /\ Did("guestAnswer", <<Str(c.m), BoolStr(ok)>> \o c.args,
         IF ok THEN "resolved" ELSE "rejected", <<>>, <<>>)
  /\ UNCHANGED <<iframe, container, penpal, penpalConnection,
                 connectedProvider, connectedAddress, currentRoute,
                 availableProviders, eventListeners, containerInDom,
                 sessionId, domFrames, frameSrc, conn, tickSleep, win,
                 replaced, savedRoute, location, lastTickKeys>>

\* The guest's answer, with the keys of an answered notification recorded in
\* delivered, each with the answer it got.
GuestAnswerRecorded(c, ok) ==
  /\ GuestAnswerEffects(c, ok)
  /\ delivered' =
       IF c.m = "setupWalletProviders"
       THEN [delivered EXCEPT
               ![c.conn] = @ \cup {<<k, ok>> : k \in GuestSetup({}, c.args)}]
       ELSE delivered

GuestAnswer(c, ok) == GuestAnswerEffects(c, ok) /\ UNCHANGED delivered

\* A faulty variant of PendingOn: the connection is dropped, not destroyed, and its
\* pending calls stay pending.
PendingOnNone(dc, cs) == {}

\* The calls pending on connection dc.
PendingOn(dc, cs) == {c \in BagToSet(cs) : c.conn = dc}

\* The assignments of destroy().  Destroying the connection rejects its
\* pending handshake and every call pending on it; nothing more is delivered
\* on it, and the record of what its guest was handed is dropped.
DestroyEffects ==
  LET dc == penpalConnection
      dead == PendingOn(dc, calls)
  IN
  /\ domFrames' = IF iframe # 0 /\ container THEN domFrames \ {iframe}
                  ELSE domFrames
  /\ iframe' = 0
  /\ container' = FALSE
  /\ conn' = IF dc # 0 THEN [conn EXCEPT ![dc] = "destroyed"] ELSE conn
  /\ calls' = [c \in BagToSet(calls) \ dead |-> calls[c]]
  /\ initPc' = [r \in Runs |->
                  IF r = dc /\ initPc[r] = "handshake" THEN "failed"
                  ELSE IF initPc[r] = "setup" /\ \E c \in dead : c.cont = r
                       THEN "rejected"
                  ELSE initPc[r]]
  /\ penpalConnection' = 0
  /\ penpal' = 0
  /\ initialized' = FALSE
  /\ currentRoute' = EmptyStr
  /\ availableProviders' = NoProviders
  /\ eventListeners' = NoListeners
  /\ timers' = IF walletWatcher # 0 THEN timers \ {walletWatcher} ELSE timers
  /\ walletWatcher' = 0
  /\ lastTickKeys' = {}
  /\ delivered' = IF dc # 0 THEN [delivered EXCEPT ![dc] = {}] ELSE delivered
  /\ UNCHANGED <<connectedProvider, connectedAddress, containerInDom,
                 sessionId, guestProviders, frameSrc, tickSleep, win,
                 replaced, handlers, savedRoute, location>>

\* A faulty variant of Destroy: this.penpalConnection.destroy() without the ?., which
\* throws on an instance that holds no connection, after the frame fields
\* were cleared.
DestroyWithoutOptionalChain ==
  IF penpalConnection # 0
  THEN DestroyEffects /\ Did("destroy", NoArg, "ok", <<>>, <<>>)
  ELSE /\ domFrames' = IF iframe # 0 /\ container THEN domFrames \ {iframe}
                       ELSE domFrames
       /\ iframe' = 0
       /\ container' = FALSE
       /\ Did("destroy", NoArg, "TypeError", <<>>, <<>>)
       /\ UNCHANGED <<penpal, penpalConnection, connectedProvider,
                      connectedAddress, initialized, currentRoute,
                      availableProviders, eventListeners, walletWatcher,
                      containerInDom, sessionId, guestProviders, delivered,
                      frameSrc, conn, initPc, timers, tickSleep, calls, win,
                      replaced, handlers, savedRoute, location, lastTickKeys>>

\* destroy()
Destroy == DestroyEffects /\ Did("destroy", NoArg, "ok", <<>>, <<>>)

\* ------------------------------------------------- the provider watcher
\* The entries of `current` whose key is not yet in `existing`.
NewProviders(current, existing) ==
  SelectSeq(current, LAMBDA e : e.key \notin KeySet(existing))

\* A faulty variant of AddNewProviders: the registry is replaced by the current scan.
ReplaceProviders(existing, current) == current

\* A faulty variant of AddNewProviders: every provider of the current scan is
\* assigned, so a key already registered is mapped to the object found now.
AssignCurrentProviders(existing, current) ==
  [i \in 1..Len(existing) |->
     IF \E j \in 1..Len(current) : current[j].key = existing[i].key
     THEN CHOOSE e \in {current[j] : j \in 1..Len(current)} :
            e.key = existing[i].key
     ELSE existing[i]]
  \o NewProviders(current, existing)

\* The loop that adds the new providers to availableProviders.
AddNewProviders(existing, current) ==
  existing \o NewProviders(current, existing)

\* A faulty variant of WatcherTick: new providers are registered and the guest
\* is not told.
WatcherTickSilent(w) ==
  /\ w \in timers
  /\ w \notin tickSleep
  /\ LET current == DetectWalletProviders(win)
         new == NewProviders(current, availableProviders)
     IN IF new # <<>>
        THEN /\ availableProviders' = AddNewProviders(availableProviders, current)
             /\ tickSleep' = tickSleep
             /\ Did("tick", NoArg, "new", <<>>, <<>>)
        ELSE /\ UNCHANGED <<availableProviders, tickSleep>>
             /\ Did("tick", NoArg, "none", <<>>, <<>>)
  /\ UNCHANGED <<iframe, container, penpal, penpalConnection,
                 connectedProvider, connectedAddress, initialized,
                 currentRoute, eventListeners, walletWatcher, containerInDom,
                 sessionId, guestProviders, delivered, domFrames, frameSrc,
                 conn, initPc, timers, calls, win, replaced, handlers,
                 savedRoute, location, lastTickKeys>>

\* One firing of the interval of startWalletProviderWatcher, up to the
\* delay inside notifyIframeOfProviders (or to its end when nothing is new
\* or the guard of notifyIframeOfProviders returns).  tickSleep holds the
\* intervals whose last firing is in that delay; the delay (100 ms) is over
\* before the same interval (3000 ms) fires again.
WatcherTick(w) ==
  /\ w \in timers
  /\ w \notin tickSleep
  /\ LET current == DetectWalletProviders(win)
         new == NewProviders(current, availableProviders)
     IN IF new # <<>>
        THEN /\ availableProviders' = AddNewProviders(availableProviders, current)
             /\ tickSleep' = IF iframe # 0 /\ penpal # 0
                             THEN tickSleep \cup {w} ELSE tickSleep
             /\ Did("tick", NoArg, "new", <<>>, <<>>)
        ELSE /\ UNCHANGED <<availableProviders, tickSleep>>
             /\ Did("tick", NoArg, "none", <<>>, <<>>)
  /\ UNCHANGED <<iframe, container, penpal, penpalConnection,
                 connectedProvider, connectedAddress, initialized,
                 currentRoute, eventListeners, walletWatcher, containerInDom,
                 sessionId, guestProviders, delivered, domFrames, frameSrc,
                 conn, initPc, timers, calls, win, replaced, handlers,
                 savedRoute, location, lastTickKeys>>

\* The 100 ms delay of a tick's notifyIframeOfProviders is over: the full key
\* list is sent, or this.penpal is null by now and the TypeError is caught.
TickNotify(w) ==
  /\ w \in tickSleep
  /\ tickSleep' = tickSleep \ {w}
  /\ IF penpal = 0
     THEN /\ Did("tickNotify", NoArg, "caught", <<>>, <<>>)
          /\ UNCHANGED <<calls, lastTickKeys>>
     ELSE /\ BagCardinality(calls) < MaxPending
          /\ LET c == Call("setupWalletProviders",
                           ObjectKeys(availableProviders), penpal, 0)
             IN /\ calls' = calls (+) SetToBag({c})
                /\ Did("tickNotify", NoArg, "sent", <<c>>, <<>>)
          /\ lastTickKeys' = KeySet(availableProviders)
  /\ UNCHANGED <<fields, containerInDom, sessionId, guestProviders, delivered,
                 domFrames, frameSrc, conn, initPc, timers, win, replaced,
                 handlers, savedRoute, location>>

\* A wallet extension injects a global into the host window, or one goes away.
HostInject(p) ==
  /\ p \in InjectablePaths \ win
  /\ p = PathBitkeepEthereum => PathBitkeep \in win
  /\ win' = win \cup {p}
  /\ Did("hostInject", p, "ok", <<>>, <<>>)
  /\ UNCHANGED <<fields, replaced, containerInDom, sessionId, guestProviders,
                 delivered, domFrames, frameSrc, conn, initPc, timers,
                 tickSleep, calls, handlers, savedRoute, location,
                 lastTickKeys>>

HostRemove(p) ==
  /\ p \in win
  /\ win' = win \ ({p} \cup (IF p = PathBitkeep THEN {PathBitkeepEthereum} ELSE {}))
  /\ replaced' = replaced \ {p}
  /\ Did("hostRemove", p, "ok", <<>>, <<>>)
  /\ UNCHANGED <<fields, containerInDom, sessionId, guestProviders, delivered,
                 domFrames, frameSrc, conn, initPc, timers, tickSleep, calls,
                 handlers, savedRoute, location, lastTickKeys>>

\* Another extension overwrites the global at a path with its own object.
HostReplace(p) ==
  /\ p \in win \cap ReplaceablePaths
  /\ p \notin replaced
  /\ replaced' = replaced \cup {p}
  /\ Did("hostReplace", p, "ok", <<>>, <<>>)
  /\ UNCHANGED <<fields, containerInDom, sessionId, guestProviders, delivered,
                 domFrames, frameSrc, conn, initPc, timers, tickSleep, calls,
                 win, handlers, savedRoute, location, lastTickKeys>>

\* ------------------------------------------------ the facade's operations
\* What a guest-delegating operation does with the call it wants to make:
\* the guard on this.penpal, then the call over the proxy.
Delegate(op, arg, c) ==
  IF penpal = 0
  THEN /\ Did(op, arg, "NotInitialized", <<>>, <<>>)
       /\ UNCHANGED calls
  ELSE /\ BagCardinality(calls) < MaxPending
       /\ calls' = calls (+) SetToBag({c})
       /\ Did(op, arg, "sent", <<c>>, <<>>)

\* The request as the caller passed it to login().
LoginInput(req) ==
  <<Str(req.type), Str(req.account), Str(req.signature), req.timestamp,
    Str(req.username), Str(req.provider)>>

\* A faulty variant of LoginArgs: the signature is not passed on.
LoginArgsWithoutSignature(req) ==
  <<Str(req.type), Str(req.account), Str("undefined"), req.timestamp,
    Str(req.username)>>

\* The object passed to this.penpal.login.
LoginArgs(req) ==
  <<Str(req.type), Str(req.account), Str(req.signature), req.timestamp,
    Str(req.username)>>

\* A faulty variant of Login: the session fields are written before the guard.
LoginAssignsFirst(req) ==
  /\ IF req.type = "WalletAddress"
     THEN /\ connectedAddress' = req.account
          /\ connectedProvider' = req.provider
     ELSE /\ connectedAddress' = ""
          /\ connectedProvider' = NoObject
  /\ Delegate("login", LoginInput(req), Call("login", LoginArgs(req), penpal, 0))
  /\ UNCHANGED <<iframe, container, penpal, penpalConnection, initialized,
                 currentRoute, availableProviders, eventListeners,
                 walletWatcher, env_but_calls, lastTickKeys>>

\* A faulty variant of Login: the provider is checked after the session
\* fields were written.
LoginChecksProviderLate(req) ==
  /\ IF penpal = 0
     THEN /\ Did("login", LoginInput(req), "NotInitialized", <<>>, <<>>)
          /\ UNCHANGED <<calls, connectedAddress, connectedProvider>>
     ELSE /\ IF req.type = "WalletAddress"
             THEN /\ connectedAddress' = req.account
                  /\ connectedProvider' = req.provider
             ELSE /\ connectedAddress' = ""
                  /\ connectedProvider' = NoObject
          /\ IF req.type = "WalletAddress" /\ req.provider = NoObject
             THEN /\ Did("login", LoginInput(req), "ProviderRequired", <<>>, <<>>)
                  /\ UNCHANGED calls
             ELSE Delegate("login", LoginInput(req),
                           Call("login", LoginArgs(req), penpal, 0))
  /\ UNCHANGED <<iframe, container, penpal, penpalConnection, initialized,
                 currentRoute, availableProviders, eventListeners,
                 walletWatcher, env_but_calls, lastTickKeys>>

Login(req) ==
  /\ IF penpal = 0
     THEN /\ Did("login", LoginInput(req), "NotInitialized", <<>>, <<>>)
          /\ UNCHANGED <<calls, connectedAddress, connectedProvider>>
     ELSE IF req.type = "WalletAddress" /\ req.provider = NoObject
     THEN /\ Did("login", LoginInput(req), "ProviderRequired", <<>>, <<>>)
          /\ UNCHANGED <<calls, connectedAddress, connectedProvider>>
     ELSE /\ IF req.type = "WalletAddress"
             THEN /\ connectedAddress' = req.account
                  /\ connectedProvider' = req.provider
             ELSE /\ connectedAddress' = ""
                  /\ connectedProvider' = NoObject
          /\ Delegate("login", LoginInput(req),
                      Call("login", LoginArgs(req), penpal, 0))
  /\ UNCHANGED <<iframe, container, penpal, penpalConnection, initialized,
                 currentRoute, availableProviders, eventListeners,
                 walletWatcher, env_but_calls, lastTickKeys>>


\* A faulty variant of Logout: a logout that clears the guest's authorization
\* also clears the session fields of the host.
LogoutClearsSession(clearAuth) ==
  /\ Delegate("logout", <<BoolStr(clearAuth)>>,
              Call("logout", <<BoolStr(clearAuth)>>, penpal, 0))
  /\ connectedProvider' = IF clearAuth THEN NoObject ELSE connectedProvider
  /\ connectedAddress' = IF clearAuth THEN "" ELSE connectedAddress
  /\ UNCHANGED <<iframe, container, penpal, penpalConnection, initialized,
                 currentRoute, availableProviders, eventListeners,
                 walletWatcher, env_but_calls, lastTickKeys>>

Logout(clearAuth) ==
  /\ Delegate("logout", <<BoolStr(clearAuth)>>,
              Call("logout", <<BoolStr(clearAuth)>>, penpal, 0))
  /\ UNCHANGED <<fields, env_but_calls, lastTickKeys>>

IsAuthorized(authType, account) ==
  /\ Delegate("isAuthorized", <<Str(authType), Str(account)>>,
              Call("isAuthorized", <<Str(authType), Str(account)>>, penpal, 0))
  /\ UNCHANGED <<fields, env_but_calls, lastTickKeys>>

\* A faulty variant of SetRoute: the route is also stored on the host side.
SetRouteUpdatesRoute(fullPath) ==
  /\ Delegate("setRoute", <<fullPath>>, Call("setRoute", <<fullPath>>, penpal, 0))
  /\ currentRoute' = IF penpal = 0 THEN currentRoute ELSE fullPath
  /\ UNCHANGED <<iframe, container, penpal, penpalConnection,
                 connectedProvider, connectedAddress, initialized,
                 availableProviders, eventListeners, walletWatcher,
                 env_but_calls, lastTickKeys>>

SetRoute(fullPath) ==
  /\ Delegate("setRoute", <<fullPath>>, Call("setRoute", <<fullPath>>, penpal, 0))
  /\ UNCHANGED <<fields, env_but_calls, lastTickKeys>>

\* --------------------------------------- the guest-callable method table
\* The guest can call the host once its connection is up, until destroyed.
GuestCanCall == \E r \in Runs : conn[r] = "ready"

\* A faulty variant of RequestLogin: the session of the last login is dropped
\* when the guest asks for a new one.
RequestLoginClearsSession ==
  /\ GuestCanCall
  /\ Did("requestLogin", NoArg, "ok", <<>>, <<<<Str("loginRequired")>>>>)
  /\ connectedProvider' = NoObject
  /\ connectedAddress' = ""
  /\ UNCHANGED <<iframe, container, penpal, penpalConnection, initialized,
                 currentRoute, availableProviders, eventListeners,
                 walletWatcher, env, lastTickKeys>>

RequestLogin ==
  /\ GuestCanCall
  /\ Did("requestLogin", NoArg, "ok", <<>>, <<<<Str("loginRequired")>>>>)
  /\ UNCHANGED <<fields, env, lastTickKeys>>

\* A faulty variant of OnRouteChange: a path that does not start with "/" is
\* dropped.
OnRouteChangeValidated(fullPath) ==
  /\ GuestCanCall
  /\ IF StartsWith(fullPath, "/")
     THEN /\ currentRoute' = fullPath
          /\ Did("onRouteChange", <<fullPath>>, "ok", <<>>,
                 <<<<Str("routeChanged"), fullPath>>>>)
     ELSE /\ UNCHANGED currentRoute
          /\ Did("onRouteChange", <<fullPath>>, "ok", <<>>, <<>>)
  /\ UNCHANGED <<iframe, container, penpal, penpalConnection,
                 connectedProvider, connectedAddress, initialized,
                 availableProviders, eventListeners, walletWatcher, env,
                 lastTickKeys>>

OnRouteChange(fullPath) ==
  /\ GuestCanCall
  /\ currentRoute' = fullPath
  /\ Did("onRouteChange", <<fullPath>>, "ok", <<>>,
         <<<<Str("routeChanged"), fullPath>>>>)
  /\ UNCHANGED <<iframe, container, penpal, penpalConnection,
                 connectedProvider, connectedAddress, initialized,
                 availableProviders, eventListeners, walletWatcher, env,
                 lastTickKeys>>

\* pathMap[snsType] of requestOauth.  pathMap is an object literal, so the
\* lookup also finds what every object inherits (constructor, toString, ...):
\* a function, which is truthy and is no path.  Anything else is undefined
\* (EmptyStr here, falsy like it).
SnsTypes == {"twitter", "discord", "telegram", "reddit"}
ObjectPrototypeKeys == {"constructor", "toString", "hasOwnProperty", "valueOf"}
NativeCode == "function () { [native code] }"
PathMap(snsType) ==
  IF snsType \in SnsTypes THEN <<"/", snsType>>
  ELSE IF snsType \in ObjectPrototypeKeys THEN <<NativeCode>>
  ELSE EmptyStr

\* The check of requestOauth: !pathMap[snsType].
SnsTypeRejected(snsType) == PathMap(snsType) = EmptyStr

\* config.oauthToolUrl is not set: the fallback of the code.
OauthToolUrl == <<"https://stage.generalauthservice.com">>
HostHref == <<"https://host.test/page">>

\* new URL(s) throws when the host part holds characters no host may hold.
UrlParses(s) == ~Includes(s, NativeCode)

SnsNames == {"twitter", "reddit", "myspace", "constructor"}
OauthStates == {Str("state123")}

\* The effects of requestOauth on the page, recorded like calls, in the
\* order the code makes them.
SavedRouteKey == Str("taskon_saved_route")
SetItem(key, value) == Call("localStorage.setItem", <<key, value>>, 0, 0)
Navigate(to, state, from) == Call("location.href", <<to, state, from>>, 0, 0)

\* A faulty variant of RequestOauth: the page is sent away first, the route
\* is saved afterwards.
RequestOauthNavigatesFirst(snsType, state) ==
  /\ GuestCanCall
  /\ IF SnsTypeRejected(snsType)
     THEN /\ Did("requestOauth", <<Str(snsType), state>>, "InvalidSnsType",
                 <<>>, <<>>)
          /\ UNCHANGED <<savedRoute, location>>
     ELSE /\ UrlParses(OauthToolUrl \o PathMap(snsType))
          /\ location' = [to |-> OauthToolUrl \o PathMap(snsType),
                          state |-> state, from |-> HostHref]
          /\ savedRoute' = IF currentRoute # EmptyStr THEN currentRoute
                           ELSE savedRoute
          /\ Did("requestOauth", <<Str(snsType), state>>, "ok",
                 <<Navigate(OauthToolUrl \o PathMap(snsType), state, HostHref)>>
                 \o (IF currentRoute # EmptyStr
                     THEN <<SetItem(SavedRouteKey, currentRoute)>> ELSE <<>>),
                 <<>>)
  /\ UNCHANGED <<fields, containerInDom, sessionId, guestProviders, delivered,
                 domFrames, frameSrc, conn, initPc, timers, tickSleep, calls,
                 win, replaced, handlers, lastTickKeys>>

RequestOauth(snsType, state) ==
  /\ GuestCanCall
  /\ IF SnsTypeRejected(snsType)
     THEN /\ Did("requestOauth", <<Str(snsType), state>>, "InvalidSnsType",
                 <<>>, <<>>)
          /\ UNCHANGED <<savedRoute, location>>
     ELSE LET saves == IF currentRoute # EmptyStr
                       THEN <<SetItem(SavedRouteKey, currentRoute)>> ELSE <<>>
              url == OauthToolUrl \o PathMap(snsType)
          IN
          /\ savedRoute' = IF currentRoute # EmptyStr THEN currentRoute
                           ELSE savedRoute
          /\ IF UrlParses(url)
             THEN /\ location' = [to |-> url, state |-> state,
                                  from |-> HostHref]
                  /\ Did("requestOauth", <<Str(snsType), state>>, "ok",
                         saves \o <<Navigate(url, state, HostHref)>>, <<>>)
             ELSE /\ UNCHANGED location
                  /\ Did("requestOauth", <<Str(snsType), state>>, "TypeError",
                         saves, <<>>)
  /\ UNCHANGED <<fields, containerInDom, sessionId, guestProviders, delivered,
                 domFrames, frameSrc, conn, initPc, timers, tickSleep, calls,
                 win, replaced, handlers, lastTickKeys>>

\* The navigation started by requestOauth completes and the page is loaded
\* again: a new instance is constructed; localStorage is what survives.
PageLoad ==
  /\ location # NoNavigation
  /\ iframe' = 0
  /\ container' = FALSE
  /\ penpal' = 0
  /\ penpalConnection' = 0
  /\ connectedProvider' = NoObject
  /\ connectedAddress' = ""
  /\ initialized' = FALSE
  /\ currentRoute' = EmptyStr
  /\ availableProviders' = NoProviders
  /\ eventListeners' = NoListeners
  /\ walletWatcher' = 0
  /\ domFrames' = {}
  /\ frameSrc' = [r \in Runs |-> EmptyStr]
  /\ conn' = [r \in Runs |-> "none"]
  /\ initPc' = [r \in Runs |-> "idle"]
  /\ timers' = {}
  /\ tickSleep' = {}
  /\ calls' = EmptyBag
  /\ handlers' = <<>>
  /\ location' = NoNavigation
  /\ lastTickKeys' = {}
  /\ Did("new", NoArg, "ok", <<>>, <<>>)
  /\ guestProviders' = [r \in Runs |-> {}]
  /\ delivered' = [r \in Runs |-> {}]
  /\ UNCHANGED <<containerInDom, sessionId, win, replaced, savedRoute>>

\* A request made on a provider object of the host, recorded like a call.
ProviderRequest(obj, method, params) ==
  Call("provider.request", <<Str(obj), Str(method)>> \o params, 0, 0)

\* What a provider's request() promise may settle with.
ProviderAnswers == {"0xSIG", "UserRejected"}

\* A faulty variant of RequestSignVerify: one error for both missing things.
RequestSignVerifyOneError(hexMessage, answer) ==
  /\ GuestCanCall
  /\ IF connectedProvider = NoObject \/ connectedAddress = ""
     THEN Did("requestSignVerify", <<hexMessage, Str(answer)>>,
              "ProviderNotFound", <<>>, <<>>)
     ELSE Did("requestSignVerify", <<hexMessage, Str(answer)>>, answer,
              <<ProviderRequest(connectedProvider, "personal_sign",
                                <<hexMessage, Str(connectedAddress)>>)>>, <<>>)
  /\ UNCHANGED <<fields, env, lastTickKeys>>

\* The handler returns the promise of provider.request: its outcome is the
\* provider's answer.
RequestSignVerify(hexMessage, answer) ==
  /\ GuestCanCall
  /\ IF connectedProvider = NoObject
     THEN Did("requestSignVerify", <<hexMessage, Str(answer)>>,
              "ProviderNotFound", <<>>, <<>>)
     ELSE IF connectedAddress = ""
     THEN Did("requestSignVerify", <<hexMessage, Str(answer)>>,
              "NoConnectedAddress", <<>>, <<>>)
     ELSE Did("requestSignVerify", <<hexMessage, Str(answer)>>, answer,
              <<ProviderRequest(connectedProvider, "personal_sign",
                                <<hexMessage, Str(connectedAddress)>>)>>, <<>>)
  /\ UNCHANGED <<fields, env, lastTickKeys>>

RequestWalletProvider(providerKey, method, params, answer) ==
  /\ GuestCanCall
  /\ LET originalProvider == GetOriginalProvider(win, providerKey)
         arg == <<providerKey, Str(method), Str(answer)>>
     IN IF originalProvider = NoObject
        THEN Did("requestWalletProvider", arg, "ProviderNotFound", <<>>, <<>>)
        ELSE IF "request" \notin Caps(originalProvider)
        THEN Did("requestWalletProvider", arg, "TypeError", <<>>, <<>>)
        ELSE Did("requestWalletProvider", arg, answer,
                 <<ProviderRequest(originalProvider, method, params)>>, <<>>)
  /\ UNCHANGED <<fields, env, lastTickKeys>>


\* ------------------------------------------------ the event forwarding hub
\* A forwarding handler is a closure: the provider object and event it was
\* attached to with on(), the triple it forwards, and whether it is still
\* attached.  handlers lists them in the order they were created.
Handler(obj, pk, ev, lid) ==
  [obj |-> obj, ev |-> ev, pk |-> pk, lid |-> lid, on |-> TRUE]

HandlerMapOf(pk) ==
  IF MapHas(eventListeners, HandlersKey(pk))
  THEN eventListeners[HandlersKey(pk)] ELSE [j \in {} |-> 0]

\* A faulty variant of SubscribeWalletEvents: the slot is recorded before the
\* provider is looked at.
SubscribeRecordsFirst(pk, ev, lid) ==
  /\ GuestCanCall
  /\ Len(handlers) < MaxHandlers
  /\ eventListeners' =
       MapSet(eventListeners, HandlersKey(pk),
              MapSet(HandlerMapOf(pk), SlotKey(ev, lid), Len(handlers) + 1))
  /\ LET originalProvider == GetOriginalProvider(win, pk)
     IN IF originalProvider = NoObject \/ "on" \notin Caps(originalProvider)
        THEN /\ Did("subscribe", <<pk, ev, lid>>, "ignored", <<>>, <<>>)
             /\ UNCHANGED handlers
        ELSE /\ handlers' = Append(handlers, Handler(originalProvider, pk, ev, lid))
             /\ Did("subscribe", <<pk, ev, lid>>, "ok", <<>>, <<>>)
  /\ UNCHANGED <<iframe, container, penpal, penpalConnection,
                 connectedProvider, connectedAddress, initialized,
                 currentRoute, availableProviders, walletWatcher,
                 containerInDom, sessionId, guestProviders, delivered,
                 domFrames, frameSrc, conn, initPc, timers, tickSleep, calls,
                 win, replaced, savedRoute, location, lastTickKeys>>

SubscribeWalletEvents(pk, ev, lid) ==
  /\ GuestCanCall
  /\ LET originalProvider == GetOriginalProvider(win, pk)
     IN IF originalProvider = NoObject \/ "on" \notin Caps(originalProvider)
        THEN /\ Did("subscribe", <<pk, ev, lid>>, "ignored", <<>>, <<>>)
             /\ UNCHANGED <<eventListeners, handlers>>
        ELSE /\ Len(handlers) < MaxHandlers
             /\ eventListeners' =
                  MapSet(eventListeners, HandlersKey(pk),
                         MapSet(HandlerMapOf(pk), SlotKey(ev, lid),
                                Len(handlers) + 1))
             /\ handlers' = Append(handlers, Handler(originalProvider, pk, ev, lid))
             /\ Did("subscribe", <<pk, ev, lid>>, "ok", <<>>, <<>>)
  /\ UNCHANGED <<iframe, container, penpal, penpalConnection,
                 connectedProvider, connectedAddress, initialized,
                 currentRoute, availableProviders, walletWatcher,
                 containerInDom, sessionId, guestProviders, delivered,
                 domFrames, frameSrc, conn, initPc, timers, tickSleep, calls,
                 win, replaced, savedRoute, location, lastTickKeys>>

\* provider.removeListener(ev, h): detaches h if it is attached there.
RemoveListener(hs, obj, ev, h) ==
  [i \in 1..Len(hs) |->
     IF i = h /\ hs[i].obj = obj /\ hs[i].ev = ev
     THEN [hs[i] EXCEPT !.on = FALSE] ELSE hs[i]]

UnsubscribeWalletEvents(pk, ev, lid) ==
  /\ GuestCanCall
  /\ LET originalProvider == GetOriginalProvider(win, pk)
         handlerMap == HandlerMapOf(pk)
     IN IF /\ originalProvider # NoObject
           /\ "removeListener" \in Caps(originalProvider)
           /\ MapHas(eventListeners, HandlersKey(pk))
           /\ MapHas(handlerMap, SlotKey(ev, lid))
        THEN /\ handlers' = RemoveListener(handlers, originalProvider, ev,
                                           handlerMap[SlotKey(ev, lid)])
             /\ eventListeners' =
                  MapSet(eventListeners, HandlersKey(pk),
                         MapDelete(handlerMap, SlotKey(ev, lid)))
             /\ Did("unsubscribe", <<pk, ev, lid>>, "removed", <<>>, <<>>)
        ELSE /\ UNCHANGED <<eventListeners, handlers>>
             /\ Did("unsubscribe", <<pk, ev, lid>>, "miss", <<>>, <<>>)
  /\ UNCHANGED <<iframe, container, penpal, penpalConnection,
                 connectedProvider, connectedAddress, initialized,
                 currentRoute, availableProviders, walletWatcher,
                 containerInDom, sessionId, guestProviders, delivered,
                 domFrames, frameSrc, conn, initPc, timers, tickSleep, calls,
                 win, replaced, savedRoute, location, lastTickKeys>>

\* The forwarding handlers attached to provider object obj for event ev, in
\* the order they were attached.
Attached(obj, ev) ==
  SelectSeq([i \in 1..Len(handlers) |-> handlers[i]],
            LAMBDA h : h.on /\ h.obj = obj /\ h.ev = ev)

\* What one handler does on a firing with arguments args: the forwarding
\* call, if this.penpal is set.  The call has no continuation: a rejection
\* is only logged (.catch).
Forward(h, args) ==
  IF penpal # 0
  THEN <<Call("onWalletEvent", <<h.pk, h.ev, h.lid>> \o args, penpal, 0)>>
  ELSE <<>>

RECURSIVE ForwardAll(_, _)
ForwardAll(hs, args) ==
  IF hs = <<>> THEN <<>>
  ELSE Forward(Head(hs), args) \o ForwardAll(Tail(hs), args)

\* The argument lists a provider passes to its listeners: one argument, and
\* two different ones.
EventArgs == {<<Str("0xA")>>, <<Str("0xA"), Str("0xB")>>}

\* The calls of a list, as pending calls.
BagOfSeq(cs) ==
  LET f[i \in 0..Len(cs)] ==
        IF i = 0 THEN EmptyBag ELSE f[i - 1] (+) SetToBag({cs[i]})
  IN f[Len(cs)]

\* Provider object obj emits event ev: every handler attached for it runs.
FireEvent(obj, ev, args) ==
  /\ "on" \in Caps(obj)
  /\ LET sent == ForwardAll(Attached(obj, ev), args)
     IN /\ BagCardinality(calls) + Len(sent) <= MaxPending
        /\ calls' = calls (+) BagOfSeq(sent)
        /\ Did("fire", <<Str(obj), ev>> \o args, "ok", sent, <<>>)
  /\ UNCHANGED <<fields, env_but_calls, lastTickKeys>>


\* ------------------------------------------------------------- trackVisit
\* What localStorage does on this call: it works, or reading throws (storage
\* blocked for the page), or writing throws (storage full).
StorageModes == {"works", "getItemThrows", "setItemThrows"}

\* The session id getSessionId generates when none is stored.
FreshSessionIds == {Str("sess_r1"), Str("sess_r2")}

\* What fetch and the service do: no response, a response with a status that
\* is not OK, an OK response whose body is no JSON, or an OK response with
\* a JSON body (null, or an object with or without result).
FetchOutcomes ==
  {"networkError", "status500", "bodyNotJson", "bodyNull", "resultMissing",
   "resultNull", "resultFalse", "resultTrue"}

Visits ==
  {<<Str("Email"), Str("a@b.com")>>, <<Str("undefined"), Str("undefined")>>}

TrackingUrl ==
  <<"https://white-label-api-stage.taskon.xyz/whiteLabel/v1/pageVisitCount">>

\* getSessionId: the id to use, the stored id afterwards, whether it threw.
GetSessionId(stored, mode, fresh) ==
  IF mode = "getItemThrows"
  THEN [id |-> EmptyStr, stored |-> stored, threw |-> TRUE]
  ELSE IF stored # EmptyStr
  THEN [id |-> stored, stored |-> stored, threw |-> FALSE]
  ELSE IF mode = "setItemThrows"
  THEN [id |-> fresh, stored |-> stored, threw |-> TRUE]
  ELSE [id |-> fresh, stored |-> fresh, threw |-> FALSE]

\* The try block of trackVisit: what it returns, or that it threw.
TrackResponse(outcome) ==
  CASE outcome = "networkError" -> "threw"
    [] outcome = "status500" -> "threw"
    [] outcome = "bodyNotJson" -> "threw"
    [] outcome = "bodyNull" -> "threw"
    [] outcome = "resultMissing" -> "false"
    [] outcome = "resultNull" -> "false"
    [] outcome = "resultFalse" -> "false"
    [] outcome = "resultTrue" -> "true"

\* trackVisit(loginType, account).  getSessionId runs before the try block.
TrackVisit(visit, mode, fresh, outcome) ==
  LET session == GetSessionId(sessionId, mode, fresh)
      arg == visit \o <<Str(mode), Str(outcome)>>
  IN
  /\ sessionId' = session.stored
  /\ IF session.threw
     THEN Did("trackVisit", arg, "rejected", <<>>, <<>>)
     ELSE Did("trackVisit", arg,
              IF TrackResponse(outcome) = "threw" THEN "false"
              ELSE TrackResponse(outcome),
              <<Call("fetch", <<TrackingUrl, session.id>> \o visit, 0, 0)>>,
              <<>>)
  /\ UNCHANGED <<fields, containerInDom, guestProviders, delivered, domFrames,
                 frameSrc, conn, initPc, timers, tickSleep, calls, win,
                 replaced, handlers, savedRoute, location, lastTickKeys>>


\* --------------------------------------------------------- specifications
\* init() as documented ("call once"): on an instance that holds no frame,
\* that is a new one or one that was destroyed.
InitOnce(r) == iframe = 0 /\ InitStart(r)

Lifecycle ==
  \/ \E r \in Runs : InitOnce(r)
  \/ \E r \in Runs : HandshakeDone(r)
  \/ \E r \in Runs : InitSleepDone(r)
  \/ \E r \in Runs : InitResume(r)
  \/ \E c \in BagToSet(calls), ok \in BOOLEAN : GuestAnswer(c, ok)
  \/ Destroy

\* The lifecycle with the guest's answers recorded.
LifecycleRecorded ==
  \/ \E r \in Runs : InitOnce(r)
  \/ \E r \in Runs : HandshakeDone(r)
  \/ \E r \in Runs : InitSleepDone(r)
  \/ \E r \in Runs : InitResume(r)
  \/ \E c \in BagToSet(calls), ok \in BOOLEAN : GuestAnswerRecorded(c, ok)
  \/ Destroy

\* One subscription and its forwarding calls over the lifecycle.
NextForward ==
  \/ Lifecycle
  \/ HostInject(PathEthereum)
  \/ SubscribeWalletEvents(KeyEthereum, Str("accountsChanged"), Str("L1"))
  \/ UnsubscribeWalletEvents(KeyEthereum, Str("accountsChanged"), Str("L1"))
  \/ FireEvent("eth", Str("accountsChanged"), <<Str("0xA")>>)

SpecForward == Init /\ [][NextForward]_vars

\* Event names and listener ids that contain the separator of the slot key.
ColonTriples ==
  { <<KeyEthereum, <<"a", ":", "b">>, Str("c")>>,
    <<KeyEthereum, Str("a"), <<"b", ":", "c">>>> }

\* Subscriptions whose names contain ':' over the lifecycle.
NextSlots ==
  \/ Lifecycle
  \/ HostInject(PathEthereum)
  \/ \E t \in ColonTriples : SubscribeWalletEvents(t[1], t[2], t[3])
  \/ \E t \in ColonTriples : UnsubscribeWalletEvents(t[1], t[2], t[3])
  \/ FireEvent("eth", Str("a"), <<Str("0xA")>>)

SpecSlots == Init /\ [][NextSlots]_vars

\* The facade's operations over the lifecycle, with the guest's route reports.
NextFacade ==
  \/ Lifecycle
  \/ \E req \in LoginRequests : Login(req)
  \/ \E b \in BOOLEAN : Logout(b)
  \/ IsAuthorized("Email", "a@b.com")
  \/ \E path \in Routes : SetRoute(path)
  \/ \E path \in ReportedRoutes : OnRouteChange(path)

SpecFacade == Init /\ [][NextFacade]_vars

\* The provider registry and its watcher over the lifecycle.
WatchedPaths == {PathEthereum, PathOkx}

NextWatcher ==
  \/ Lifecycle
  \/ \E w \in Runs : WatcherTick(w)
  \/ \E w \in Runs : TickNotify(w)
  \/ \E p \in WatchedPaths : HostInject(p)
  \/ \E p \in WatchedPaths : HostRemove(p)
  \/ \E p \in ReplaceablePaths : HostReplace(p)

SpecWatcher == Init /\ [][NextWatcher]_vars

\* The watcher over providers that appear and stay, when its timers fire and
\* the guest answers: each interval fires again and again, each delay ends,
\* and a pending call is answered.
NextDeliver ==
  \/ LifecycleRecorded
  \/ \E w \in Runs : WatcherTick(w)
  \/ \E w \in Runs : TickNotify(w)
  \/ \E p \in WatchedPaths : HostInject(p)

SpecDeliver ==
  /\ Init
  /\ [][NextDeliver]_vars
  /\ WF_vars(\E w \in Runs : WatcherTick(w))
  /\ WF_vars(\E w \in Runs : TickNotify(w))
  /\ WF_vars(\E r \in Runs : InitSleepDone(r))
  /\ WF_vars(\E c \in BagToSet(calls), ok \in BOOLEAN :
               GuestAnswerRecorded(c, ok))

\* Logins that overlap, and the signature requests the guest makes while it
\* handles them.
NextOverlap ==
  \/ Lifecycle
  \/ \E req \in OverlappingLogins : Login(req)
  \/ \E msg \in HexMessages : RequestSignVerify(msg, "0xSIG")

SpecOverlap == Init /\ [][NextOverlap]_vars

\* The guest's provider requests while the globals of the host change after
\* init() has scanned them: a provider appears, goes away, or is replaced.
NextLive ==
  \/ InitOnce(1) \/ HandshakeDone(1) \/ InitSleepDone(1) \/ InitResume(1)
  \/ \E c \in BagToSet(calls), ok \in BOOLEAN : GuestAnswerRecorded(c, ok)
  \/ Destroy
  \/ \E p \in WatchedPaths : HostInject(p)
  \/ \E p \in WatchedPaths : HostRemove(p)
  \/ \E p \in ReplaceablePaths : HostReplace(p)
  \/ \E k \in {KeyEthereum, KeyOkx} :
       RequestWalletProvider(k, "eth_accounts", <<>>, "0xSIG")
  \/ SubscribeWalletEvents(KeyEthereum, Str("accountsChanged"), Str("L1"))
  \/ UnsubscribeWalletEvents(KeyEthereum, Str("accountsChanged"), Str("L1"))

SpecLive == Init /\ [][NextLive]_vars

\* The event forwarding hub over the lifecycle.
NextHub ==
  \/ Lifecycle
  \/ HostInject(PathEthereum)
  \/ \E l \in ListenerIds :
       SubscribeWalletEvents(KeyEthereum, Str("accountsChanged"), l)
  \/ \E l \in ListenerIds :
       UnsubscribeWalletEvents(KeyEthereum, Str("accountsChanged"), l)
  \/ \E args \in EventArgs : FireEvent("eth", Str("accountsChanged"), args)

SpecHub == Init /\ [][NextHub]_vars

\* The OAuth redirect requested by the guest.
NextOauth ==
  \/ Lifecycle
  \/ \E path \in ReportedRoutes : OnRouteChange(path)
  \/ \E n \in SnsNames, st \in OauthStates : RequestOauth(n, st)
  \/ PageLoad

SpecOauth == Init /\ [][NextOauth]_vars

\* The wallet requests of the guest: signing with the provider of the
\* login, and requests to providers found on the window.
NestedPaths == {PathBitkeep, PathBitkeepEthereum}

NextWallet ==
  \/ Lifecycle
  \/ \E req \in LoginRequests \cup {WalletLoginNoAccount} : Login(req)
  \/ \E msg \in HexMessages, a \in ProviderAnswers : RequestSignVerify(msg, a)
  \/ \E k \in ProviderKeys, a \in ProviderAnswers :
       RequestWalletProvider(k, "eth_accounts", <<>>, a)
  \/ \E p \in NestedPaths : HostInject(p)
  \/ \E p \in NestedPaths : HostRemove(p)

SpecWallet == Init /\ [][NextWallet]_vars


\* Page visits tracked while the embed lives on the page.
NextTracking ==
  \/ Lifecycle
  \/ \E v \in Visits, mode \in StorageModes, fresh \in FreshSessionIds,
        outcome \in FetchOutcomes : TrackVisit(v, mode, fresh, outcome)

SpecTracking == Init /\ [][NextTracking]_vars

\* An email login and a wallet login.
SessionLogins == {req \in LoginRequests : req.type = "Email" \/ req.provider # NoObject}

\* The host page adds or removes the container element, while no frame is
\* rendered in it.
ContainerChange(present) ==
  /\ iframe = 0
  /\ containerInDom # present
  /\ containerInDom' = present
  /\ Did("containerChange", <<BoolStr(present)>>, "ok", <<>>, <<>>)
  /\ UNCHANGED <<fields, sessionId, guestProviders, delivered, domFrames,
                 frameSrc, conn, initPc, timers, tickSleep, calls, win,
                 replaced, handlers, savedRoute, location, lastTickKeys>>

\* init() on a page whose container comes and goes, with the OAuth redirect
\* that leaves a saved route behind.
NextRender ==
  \/ Lifecycle
  \/ OnRouteChange(<<"quests">>)
  \/ RequestOauth("twitter", Str("state123"))
  \/ PageLoad
  \/ \E present \in BOOLEAN : ContainerChange(present)

SpecRender == Init /\ [][NextRender]_vars

\* Subscriptions for providers that are absent, present, or present without
\* on().
SubscribedKeys == {KeyEthereum, KeyOnto, KeyBitkeepEthereum}
SubscribedPaths == {PathEthereum, PathOnto}

NextSubscribe ==
  \/ Lifecycle
  \/ \E p \in SubscribedPaths : HostInject(p)
  \/ \E p \in SubscribedPaths : HostRemove(p)
  \/ \E k \in SubscribedKeys :
       SubscribeWalletEvents(k, Str("accountsChanged"), Str("L1"))

SpecSubscribe == Init /\ [][NextSubscribe]_vars

\* The operations of the facade that write or could write the session and
\* every method the guest may call, over one init() and its destroy().
\* setRoute stands for the operations that only pass a call on to the guest
\* (isAuthorized has the same shape).
NextSession ==
  \/ InitOnce(1)
  \/ HandshakeDone(1)
  \/ InitSleepDone(1)
  \/ InitResume(1)
  \/ \E c \in BagToSet(calls), ok \in BOOLEAN : GuestAnswer(c, ok)
  \/ Destroy
  \/ \E req \in SessionLogins : Login(req)
  \/ Logout(TRUE)
  \/ SetRoute(<<"quests">>)
  \/ RequestLogin
  \/ RequestOauth("twitter", Str("state123"))
  \/ OnRouteChange(<<"quests">>)
  \/ \E msg \in HexMessages : RequestSignVerify(msg, "0xSIG")
  \/ RequestWalletProvider(KeyEthereum, "eth_accounts", <<>>, "0xSIG")
  \/ SubscribeWalletEvents(KeyEthereum, Str("accountsChanged"), Str("L1"))
  \/ UnsubscribeWalletEvents(KeyEthereum, Str("accountsChanged"), Str("L1"))
  \/ HostInject(PathEthereum)

SpecSession == Init /\ [][NextSession]_vars

\* Logins, logouts with either clearAuth, and the guest's signature requests.
NextLogout ==
  \/ Lifecycle
  \/ \E req \in SessionLogins : Login(req)
  \/ \E clearAuth \in BOOLEAN : Logout(clearAuth)
  \/ \E msg \in HexMessages : RequestSignVerify(msg, "0xSIG")

SpecLogout == Init /\ [][NextLogout]_vars

\* init() and destroy() in any order, init() also on an instance that still
\* holds the frame and connection of an earlier init().
NextReinit ==
  \/ \E r \in Runs : InitStart(r)
  \/ \E r \in Runs : HandshakeDone(r)
  \/ \E r \in Runs : InitSleepDone(r)
  \/ \E r \in Runs : InitResume(r)
  \/ \E c \in BagToSet(calls), ok \in BOOLEAN : GuestAnswer(c, ok)
  \/ Destroy
  \/ \E path \in Routes : SetRoute(path)

SpecReinit == Init /\ [][NextReinit]_vars


\* ------------------------------------------------------------ properties
DelegatingOps == {"login", "logout", "isAuthorized", "setRoute"}

\* C1: login, logout, isAuthorized and setRoute, called while this.penpal is
\* null (before init(), during the handshake, after destroy()), fail with
\* "Not initialized", send nothing to the guest, queue nothing, and leave
\* connectedAddress, connectedProvider and currentRoute as they were.
C1_NotInitializedNoEffect ==
  [][(last'.op \in DelegatingOps /\ penpal = 0)
       => /\ last'.res = "NotInitialized"
          /\ last'.sent = <<>>
          /\ UNCHANGED <<calls, connectedAddress, connectedProvider,
                         currentRoute>>]_vars

\* A login refused after destroy(), on an instance that still holds the
\* session of an earlier wallet login.
C1_Witness ==
  /\ last.op = "login"
  /\ last.res = "NotInitialized"
  /\ connectedProvider # NoObject
  /\ \E r \in Runs : conn[r] = "destroyed"

SameTriple(g, h) == g.pk = h.pk /\ g.ev = h.ev /\ g.lid = h.lid

\* C2: at most one forwarding handler per (providerKey, eventName,
\* listenerId) is attached to the provider, and one firing of the provider
\* event sends at most one onWalletEvent per triple.
C2_OneHandlerPerTriple ==
  /\ \A i, j \in 1..Len(handlers) :
       (handlers[i].on /\ handlers[j].on /\ SameTriple(handlers[i], handlers[j]))
         => i = j
  /\ last.op = "fire" =>
       \A i, j \in 1..Len(last.sent) :
         last.sent[i].args = last.sent[j].args => i = j

AttachedFor(hs, pk, ev, lid) ==
  {i \in 1..Len(hs) : hs[i].on /\ hs[i].pk = pk /\ hs[i].ev = ev /\ hs[i].lid = lid}

HasSlot(el, pk, ev, lid) ==
  MapHas(el, HandlersKey(pk)) /\ MapHas(el[HandlersKey(pk)], SlotKey(ev, lid))

\* C3: a subscribeWalletEvents followed by unsubscribeWalletEvents with the
\* same triple leaves no forwarding handler attached for the triple and no
\* bookkeeping entry; an unsubscribe of a triple that has no entry raises no
\* error and changes nothing.
C3_SubscribeThenUnsubscribe ==
  [][/\ (/\ last.op = "subscribe" /\ last.res = "ok"
         /\ last'.op = "unsubscribe" /\ last'.arg = last.arg)
          => /\ AttachedFor(handlers', last.arg[1], last.arg[2], last.arg[3]) = {}
             /\ ~HasSlot(eventListeners', last.arg[1], last.arg[2], last.arg[3])
     /\ (/\ last'.op = "unsubscribe"
         /\ ~HasSlot(eventListeners, last'.arg[1], last'.arg[2], last'.arg[3]))
          => /\ last'.res = "miss"
             /\ UNCHANGED <<handlers, eventListeners>>]_vars

\* C4: after destroy(), and until a new init() is started (the instance
\* holds no frame), no watcher tick runs.
C4_NoTickAfterDestroy ==
  [][iframe = 0 => last'.op # "tick"]_vars

Settled(r) == initPc[r] \in {"idle", "done", "failed"}

\* C5: when every init() has settled and the last call was destroy() (the
\* instance holds no frame), the instance is destroyed: initialized is
\* false and no connection and no remote proxy is held.
C5_DestroyedStaysDestroyed ==
  (iframe = 0 /\ \A r \in Runs : Settled(r))
    => (~initialized /\ penpalConnection = 0 /\ penpal = 0)

\* C6: after destroy() the session fields are cleared: connectedAddress is
\* empty, connectedProvider absent, currentRoute empty, initialized false.
C6_DestroyClearsSession ==
  last.op = "destroy"
    => /\ connectedAddress = ""
       /\ connectedProvider = NoObject
       /\ currentRoute = EmptyStr
       /\ ~initialized

\* C7: after destroy() no forwarding handler is attached to any provider,
\* and a provider event forwards only for triples that are recorded in
\* eventListeners, also after a later init().
C7_DestroyDetachesHandlers ==
  /\ last.op = "destroy" => \A i \in 1..Len(handlers) : ~handlers[i].on
  /\ last.op = "fire" =>
       \A i \in 1..Len(last.sent) :
         HasSlot(eventListeners, last.sent[i].args[1], last.sent[i].args[2],
                 last.sent[i].args[3])

\* C8: destroy() called right after destroy() raises no error and leaves
\* every field of the instance, the frame, the connections, the timers and
\* the pending calls as the first call left them.
C8_DestroyIdempotent ==
  [][(last.op = "destroy" /\ last'.op = "destroy")
       => (last'.res = "ok" /\ UNCHANGED <<fields, env, lastTickKeys>>)]_vars

\* A destroy() of an instance that was ready, logged in and watching.
C8_Witness ==
  /\ last.op = "destroy"
  /\ last.res = "ok"
  /\ connectedProvider # NoObject
  /\ \E r \in Runs : conn[r] = "destroyed" /\ initPc[r] = "done"

C10_InvalidProviderRejected ==
  [][(last'.op = "requestOauth" /\ Head(last'.arg[1]) \notin SnsTypes)
       => /\ last'.res = "InvalidSnsType"
          /\ UNCHANGED <<savedRoute, location>>]_vars

C12_SavedRouteReadOnce ==
  [][/\ (last'.op = "init" /\ last'.res = "pending")
          => /\ savedRoute' = EmptyStr
             /\ frameSrc'[iframe'] =
                  IF savedRoute = EmptyStr THEN BaseUrl
                  ELSE <<"https://x.test">>
                       \o (IF Head(savedRoute) = "/" THEN savedRoute
                           ELSE <<"/">> \o savedRoute)
     /\ (savedRoute' # savedRoute /\ savedRoute' # EmptyStr)
          => (last'.op = "requestOauth" /\ savedRoute' = currentRoute)]_vars

\* After an OAuth return the first frame started at the saved route and the
\* record is gone; the frame of the next init() has just started at the base
\* URL.
C12_Witness ==
  /\ last.op = "init"
  /\ iframe = 2
  /\ frameSrc[1] = <<"https://x.test", "/", "tasks">>
  /\ frameSrc[2] = BaseUrl
  /\ savedRoute = EmptyStr

\* C13: requestSignVerify(message) fails with "Provider not found" when no
\* connectedProvider is set, with "No connected address" when a provider is
\* set and connectedAddress is empty, and otherwise makes one personal_sign
\* request with [message, connectedAddress] on connectedProvider and
\* settles as that request settles.
C13_SignVerify ==
  [][last'.op = "requestSignVerify"
       => IF connectedProvider = NoObject
          THEN last'.res = "ProviderNotFound" /\ last'.sent = <<>>
          ELSE IF connectedAddress = ""
          THEN last'.res = "NoConnectedAddress" /\ last'.sent = <<>>
          ELSE /\ last'.sent =
                    <<Call("provider.request",
                           <<Str(connectedProvider), Str("personal_sign"),
                             last'.arg[1], Str(connectedAddress)>>, 0, 0)>>
               /\ last'.res = Head(last'.arg[2])]_vars

\* A signature request refused for the missing address: the wallet login
\* gave a provider and an empty account.
C13_Witness ==
  /\ last.op = "requestSignVerify"
  /\ last.res = "NoConnectedAddress"
  /\ connectedProvider = "eth"

PathOfKey(providerKey) == Split(providerKey, ".")

SegmentsPresent(w, path) == \A n \in 1..Len(path) : SubSeq(path, 1, n) \in w

\* C14: requestWalletProvider with a dotted key "outer.inner" makes the
\* request {method, params} on the object found by following outer and then
\* inner from the window and settles as that request settles; when a
\* segment is absent (outer, or inner under an existing outer) it fails with
\* "Provider ... not found", never with another error, and requests nothing.
C14_NestedProviderResolved ==
  [][(last'.op = "requestWalletProvider" /\ Includes(last'.arg[1], "."))
       => LET path == PathOfKey(last'.arg[1])
          IN IF SegmentsPresent(win, path)
             THEN /\ last'.sent =
                       <<Call("provider.request",
                              <<Str(WindowObject(path)), last'.arg[2]>>, 0, 0)>>
                  /\ last'.res = Head(last'.arg[3])
             ELSE /\ last'.res = "ProviderNotFound"
                  /\ last'.sent = <<>>]_vars

\* requestWalletProvider("bitkeep.ethereum", ...) refused while
\* window.bitkeep exists and window.bitkeep.ethereum does not.
C14_Witness ==
  /\ last.op = "requestWalletProvider"
  /\ last.arg[1] = KeyBitkeepEthereum
  /\ last.res = "ProviderNotFound"
  /\ PathBitkeep \in win
  /\ PathBitkeepEthereum \notin win

\* C15: login with the wallet login kind and no provider fails, sends no
\* login call to the guest and leaves connectedAddress and connectedProvider
\* with the values they had.
C15_WalletLoginNeedsProvider ==
  [][(/\ last'.op = "login"
      /\ last'.arg[1] = Str("WalletAddress")
      /\ last'.arg[6] = Str(NoObject))
       => /\ last'.res \in {"ProviderRequired", "NotInitialized"}
          /\ penpal # 0 => last'.res = "ProviderRequired"
          /\ last'.sent = <<>>
          /\ UNCHANGED <<calls, connectedAddress, connectedProvider>>]_vars

\* A wallet login without provider refused on a ready instance that holds
\* the session of an earlier wallet login.
C15_Witness ==
  /\ last.op = "login"
  /\ last.res = "ProviderRequired"
  /\ connectedProvider = "eth"
  /\ connectedAddress = "0xA"

\* C16: a login(request) on an instance that holds the remote proxy, with a
\* provider when the kind is the wallet kind, makes exactly one login call
\* to the guest, carrying the type, account, signature and timestamp (and
\* username) of the request unchanged; the guest's answer to that call is
\* the outcome of the caller's promise, resolved or rejected alike.
C16_LoginForwarded ==
  [][/\ (/\ last'.op = "login"
         /\ penpal # 0
         /\ ~(/\ last'.arg[1] = Str("WalletAddress")
              /\ last'.arg[6] = Str(NoObject)))
          => LET c == Call("login", SubSeq(last'.arg, 1, 5), penpal, 0)
             IN /\ last'.res = "sent"
                /\ last'.sent = <<c>>
                /\ calls' = calls (+) SetToBag({c})
     /\ (last'.op = "guestAnswer" /\ last'.arg[1] = Str("login"))
          => LET c == Call("login", SubSeq(last'.arg, 3, 7), penpal, 0)
             IN /\ last'.res = IF last'.arg[2] = Str("true") THEN "resolved"
                                ELSE "rejected"
                /\ c \in BagToSet(calls)
                /\ calls' = calls (-) SetToBag({c})]_vars

\* The guest has rejected the login of the Email request of an initialized
\* instance.
C16_Witness ==
  /\ last.op = "guestAnswer"
  /\ last.arg[1] = Str("login")
  /\ last.arg[3] = Str("Email")
  /\ last.res = "rejected"
  /\ initialized

\* C17: onRouteChange(path) called by the guest with any string (with or
\* without a leading "/", or empty) sets currentRoute to that string and
\* emits one routeChanged event that carries it.
C17_RouteChangeVerbatim ==
  [][last'.op = "onRouteChange"
       => /\ currentRoute' = last'.arg[1]
          /\ last'.emitted = <<<<Str("routeChanged"), last'.arg[1]>>>>]_vars

\* The guest has reported a route without a leading "/".
C17_Witness ==
  /\ last.op = "onRouteChange"
  /\ currentRoute = <<"quests">>
  /\ last.emitted = <<<<Str("routeChanged"), <<"quests">>>>>>

\* C18: setRoute(path) sends path to the guest and leaves currentRoute as it
\* was; currentRoute takes a route as its value only in onRouteChange (the
\* only other change is the reset to the empty string by destroy()).
C18_SetRouteLeavesRoute ==
  [][/\ last'.op = "setRoute"
          => /\ currentRoute' = currentRoute
             /\ penpal # 0
                  => last'.sent = <<Call("setRoute", last'.arg, penpal, 0)>>
     /\ currentRoute' # currentRoute
          => \/ last'.op = "onRouteChange"
             \/ last'.op = "destroy" /\ currentRoute' = EmptyStr]_vars

\* setRoute was sent to the guest while currentRoute holds another route.
C18_Witness ==
  /\ last.op = "setRoute"
  /\ last.res = "sent"
  /\ last.arg = <<<<"/", "tasks">>>>
  /\ currentRoute = <<"quests">>

\* C19: at any time at most one connection of the instance is ready
\* (handshake completed and not destroyed).
C19_AtMostOneReady ==
  Cardinality({r \in Runs : conn[r] = "ready"}) <= 1

C21_TrackVisitNeverRejects ==
  last.op = "trackVisit"
    => /\ last.res \in {"true", "false"}
       /\ last.res = "true"
            => (last.arg[4] = Str("resultTrue") /\ last.arg[3] = Str("works"))
       /\ last.arg[3] # Str("works") => last.res = "false"

\* A tick that has started and not finished: it is in the delay of its
\* notification, or it awaits the setupWalletProviders call it sent (calls
\* of ticks carry no init continuation).
TickInProgress ==
  \/ tickSleep # {}
  \/ \E c \in BagToSet(calls) : c.m = "setupWalletProviders" /\ c.cont = 0

\* C22: no watcher tick starts while an earlier tick has not finished its
\* detect, diff and notify sequence, the awaited setupWalletProviders call
\* included, however long the guest takes to answer.
C22_TicksNeverOverlap ==
  [][last'.op = "tick" => ~TickInProgress]_vars

NotificationPending ==
  \/ \E c \in BagToSet(calls) : c.m = "setupWalletProviders"
  \/ tickSleep # {}
  \/ \E r \in Runs : initPc[r] = "sleep"

\* C23: whatever the order in which the guest processes the
\* setupWalletProviders notifications that were in flight, once it has
\* processed them all (none is pending or due) the provider set it holds is
\* the key set of the host's registry.
C23_NotificationOrderInsensitive ==
  (/\ last.op = "guestAnswer"
   /\ last.arg[1] = Str("setupWalletProviders")
   /\ penpal # 0
   /\ ~NotificationPending)
    => guestProviders[penpal] = KeySet(availableProviders)

\* C24: every setupWalletProviders call carries all the keys of the
\* registry as it is when the call is sent, each once and in the registry's
\* order, not only the keys detected last.
C24_NotificationIsComplete ==
  [][\A i \in 1..Len(last'.sent) :
        last'.sent[i].m = "setupWalletProviders"
          => /\ Len(last'.sent[i].args) = Len(availableProviders')
             /\ \A k \in 1..Len(availableProviders') :
                  last'.sent[i].args[k] = availableProviders'[k].key]_vars

\* A tick notifies the guest of both providers although the guest already
\* holds the first.
C24_Witness ==
  /\ last.op = "tickNotify"
  /\ last.res = "sent"
  /\ last.sent[1].args = <<KeyEthereum, KeyOkx>>
  /\ penpal # 0
  /\ guestProviders[penpal] = {KeyEthereum}

\* The entries of registry `a` are the first entries of registry `b`.
RegistryKept(a, b) ==
  /\ Len(a) <= Len(b)
  /\ \A i \in 1..Len(a) : b[i] = a[i]

TickNotificationFails ==
  \/ last'.op = "tick" /\ last'.res = "new" /\ (iframe = 0 \/ penpal = 0)
  \/ last'.op = "tickNotify" /\ last'.res = "caught"
  \/ /\ last'.op = "guestAnswer"
     /\ last'.res = "rejected"
     /\ \E c \in BagToSet(calls) :
          /\ c.m = "setupWalletProviders"
          /\ c.cont = 0
          /\ calls' = calls (-) SetToBag({c})

\* C26: a failed guest notification of a tick changes neither the interval
\* nor the registry beyond what the tick registered, and every tick, after
\* a failure as before it, registers each provider that its scan finds.
C26_TickFailureSwallowed ==
  [][/\ (TickNotificationFails
          => /\ timers' = timers
             /\ walletWatcher' = walletWatcher
             /\ initialized' = initialized
             /\ RegistryKept(availableProviders, availableProviders'))
     /\ (last'.op = "tick"
          => KeySet(DetectWalletProviders(win))
               \subseteq KeySet(availableProviders'))]_vars

\* The guest has rejected the notification of a tick; the interval is still
\* scheduled and window.okxwallet, not yet registered, waits for its tick.
C26_Witness ==
  /\ last.op = "guestAnswer"
  /\ last.res = "rejected"
  /\ last.arg[1] = Str("setupWalletProviders")
  /\ lastTickKeys = {KeyEthereum}
  /\ initPc[1] = "done"
  /\ \A r \in Runs \ {1} : initPc[r] = "idle"
  /\ walletWatcher \in timers
  /\ PathOkx \in win
  /\ KeyOkx \notin KeySet(availableProviders)

\* The step ends the notification of init run r with an error: the call
\* throws after the delay, destroy() has rejected it, or the guest rejects it.
InitNotificationFails(r) ==
  \/ /\ last'.op = "initNotify"
     /\ last'.res = "caught"
     /\ initPc[r] \in {"sleep", "rejected"}
     /\ initPc'[r] # initPc[r]
  \/ /\ last'.op = "guestAnswer"
     /\ last'.res = "rejected"
     /\ initPc[r] = "setup"
     /\ \E c \in BagToSet(calls) :
          /\ c.m = "setupWalletProviders"
          /\ c.cont = r
          /\ calls' = calls (-) SetToBag({c})

\* C27: when the setupWalletProviders notification of init() fails, init()
\* resolves all the same: its watcher is started and initialized is true;
\* and an init() that has got as far as the notification never fails.
C27_InitNotifyFailureSwallowed ==
  [][\A r \in Runs :
        /\ InitNotificationFails(r)
             => /\ initPc'[r] = "done"
                /\ r \in timers'
                /\ walletWatcher' = r
                /\ initialized'
        /\ (initPc[r] \in {"sleep", "setup", "rejected"})
             => initPc'[r] # "failed"]_vars

\* The guest has rejected the notification of the first init(), and that
\* init() has resolved.
C27_Witness ==
  /\ last.op = "guestAnswer"
  /\ last.res = "rejected"
  /\ last.arg[1] = Str("setupWalletProviders")
  /\ lastTickKeys = {}
  /\ iframe = 1
  /\ penpal = 1
  /\ initPc[1] = "done"
  /\ \A r \in Runs \ {1} : initPc[r] = "idle"
  /\ initialized
  /\ walletWatcher = 1

\* The handlers that eventListeners records, each for the triple it forwards.
Installed ==
  {h \in 1..Len(handlers) :
     /\ handlers[h].on
     /\ HasSlot(eventListeners, handlers[h].pk, handlers[h].ev, handlers[h].lid)
     /\ eventListeners[HandlersKey(handlers[h].pk)]
                       [SlotKey(handlers[h].ev, handlers[h].lid)] = h}

\* C28: with the connection ready, a firing of a provider event with
\* arguments a1..an sends, for each subscription installed for that provider
\* and event, exactly one onWalletEvent call, and its arguments are
\* (providerKey, eventName, listenerId, a1, ..., an).
C28_EventForwardedOnce ==
  (last.op = "fire" /\ penpal # 0 /\ conn[penpal] = "ready")
    => \A h \in Installed :
         (Str(handlers[h].obj) = last.arg[1] /\ handlers[h].ev = last.arg[2])
           => Cardinality(
                {i \in 1..Len(last.sent) :
                   /\ last.sent[i].m = "onWalletEvent"
                   /\ last.sent[i].args =
                        <<handlers[h].pk, handlers[h].ev, handlers[h].lid>>
                          \o SubSeq(last.arg, 3, Len(last.arg))}) = 1

\* A step in which a forwarding fails: the guest rejects an onWalletEvent
\* call, or an event fires while this.penpal is not set.
ForwardingFails ==
  \/ /\ last'.op = "guestAnswer"
     /\ last'.res = "rejected"
     /\ last'.arg[1] = Str("onWalletEvent")
  \/ last'.op = "fire" /\ penpal = 0

\* C29: a failed forwarding leaves every handler attached and every record
\* of eventListeners as it was, and every firing with the proxy set, after
\* a failure as before it, sends a call for each handler attached for the
\* event.
C29_ForwardFailureKeepsSubscription ==
  [][/\ (ForwardingFails => UNCHANGED <<handlers, eventListeners>>)
     /\ ((last'.op = "fire" /\ penpal # 0)
          => \A h \in 1..Len(handlers) :
               (/\ handlers[h].on
                /\ Str(handlers[h].obj) = last'.arg[1]
                /\ handlers[h].ev = last'.arg[2])
                 => \E i \in 1..Len(last'.sent) :
                      last'.sent[i].args =
                        <<handlers[h].pk, handlers[h].ev, handlers[h].lid>>
                          \o SubSeq(last'.arg, 3, Len(last'.arg)))]_vars

\* The guest has rejected the forwarding of an event, and the subscription
\* it was sent for is still recorded and its handler still attached.
C29_Witness ==
  /\ last.op = "guestAnswer"
  /\ last.res = "rejected"
  /\ last.arg[1] = Str("onWalletEvent")
  /\ penpal # 0
  /\ \E h \in Installed :
       <<handlers[h].pk, handlers[h].ev, handlers[h].lid>>
         = SubSeq(last.arg, 3, 5)

\* Handler h is the one that eventListeners records for its triple.
Recorded(el, hs, h) ==
  /\ HasSlot(el, hs[h].pk, hs[h].ev, hs[h].lid)
  /\ el[HandlersKey(hs[h].pk)][SlotKey(hs[h].ev, hs[h].lid)] = h

\* C30: a subscribe or an unsubscribe of one triple leaves the handler of
\* every other triple as it was: still recorded if it was recorded, and
\* attached exactly if it was attached.
C30_SlotsNeverShared ==
  [][last'.op \in {"subscribe", "unsubscribe"}
       => \A h \in 1..Len(handlers) :
            <<handlers[h].pk, handlers[h].ev, handlers[h].lid>> # last'.arg
              => /\ handlers'[h].on = handlers[h].on
                 /\ Recorded(eventListeners, handlers, h)
                      => Recorded(eventListeners', handlers', h)]_vars

\* C31: connectedProvider and connectedAddress change only in a login step
\* (logout may write them and does not): every other operation of the
\* facade, destroy() among them, and every method called by the guest
\* leaves both as they were.
C31_SessionWrittenByLoginOnly ==
  [][last'.op \notin {"login", "logout"}
       => UNCHANGED <<connectedProvider, connectedAddress>>]_vars

\* The guest asks for a signature, with the provider and address of an
\* earlier wallet login in place, and both are still there.
C31_Witness ==
  /\ last.op = "requestSignVerify"
  /\ last.res = "0xSIG"
  /\ connectedProvider = "eth"
  /\ connectedAddress = "0xA"

\* The positions of an init() run in the order the claim gives them: frame
\* rendered and handshake awaited, handshake completed and notification
\* under way (its delay, its call), then watcher started and initialized set.
InitRank(pc) ==
  CASE pc = "idle" -> 0
    [] pc = "handshake" -> 1
    [] pc = "sleep" -> 2
    [] pc = "setup" -> 3
    [] pc = "rejected" -> 4
    [] pc = "done" -> 5
    [] OTHER -> 6

\* C32: every init() run goes through its steps in order (frame, handshake,
\* notification, watcher, initialized), the step that sets initialized is
\* the one that starts the watcher, and initialized is true only while the
\* remote proxy is held and its handshake has completed.
C32_InitOrder ==
  [][/\ \A r \in Runs :
          (initPc'[r] # initPc[r])
            => (InitRank(initPc'[r]) > InitRank(initPc[r]))
     /\ ((~initialized /\ initialized')
          => (\E q \in Runs :
                /\ initPc[q] \in {"sleep", "setup", "rejected"}
                /\ initPc'[q] = "done"
                /\ q \in timers'))
     /\ (initialized' => (penpal' # 0 /\ conn'[penpal'] = "ready"))]_vars

C34_SubscribeWithoutProvider ==
  [][(/\ last'.op = "subscribe"
      /\ \/ GetOriginalProvider(win, last'.arg[1]) = NoObject
         \/ "on" \notin Caps(GetOriginalProvider(win, last'.arg[1])))
       => /\ last'.res = "ignored"
          /\ UNCHANGED <<handlers, eventListeners, calls>>]_vars

\* A subscribe for window.onto, which is there and has no on(), was ignored.
C34_Witness ==
  /\ last.op = "subscribe"
  /\ last.res = "ignored"
  /\ last.arg[1] = KeyOnto
  /\ PathOnto \in win
  /\ ~MapHas(eventListeners, HandlersKey(KeyOnto))

\* The connection of the instance is ready.
Ready == penpal # 0 /\ conn[penpal] = "ready"

\* The keys of the setupWalletProviders calls that the guest of the current
\* connection has been handed (accepted or rejected), and of those it accepted.
Answered == {p[1] : p \in delivered[penpal]}

Accepted == {p[1] : p \in {q \in delivered[penpal] : q[2]}}

\* C35: with timers that fire and a guest that answers, a provider key that
\* is in the registry while the connection is ready is in a
\* setupWalletProviders call that the guest of that connection has accepted,
\* sooner or later, unless destroy() ends the connection first.
C35_EveryKeyDelivered ==
  \A k \in {KeyEthereum, KeyOkx} :
    (Ready /\ k \in KeySet(availableProviders))
      ~> (penpal = 0 \/ k \in Accepted)

\* C35, amended: the key is in a setupWalletProviders call that the guest of
\* that connection has been handed and has answered, accepting or rejecting
\* it, unless destroy() ends the connection first.
C35_EveryKeyAnswered ==
  \A k \in {KeyEthereum, KeyOkx} :
    (Ready /\ k \in KeySet(availableProviders))
      ~> (penpal = 0 \/ k \in Answered)

\* The guest has rejected the notification of init() with window.ethereum,
\* and has accepted the one of a tick that registered window.okxwallet.
C35_Witness ==
  /\ Ready
  /\ last.op = "guestAnswer"
  /\ lastTickKeys = {KeyEthereum, KeyOkx}
  /\ delivered[penpal] = {<<KeyEthereum, FALSE>>, <<KeyEthereum, TRUE>>,
                          <<KeyOkx, TRUE>>}
  /\ availableProviders = <<Entry(KeyEthereum, "eth"), Entry(KeyOkx, "okx")>>

\* The provider that the caller of login() gave with the request of call c.
ProviderOfLogin(c) ==
  (CHOOSE req \in OverlappingLogins : LoginArgs(req) = c.args).provider

\* A wallet login that the guest of the current connection is handling.
HandledWalletLogin(c) ==
  /\ c \in BagToSet(calls)
  /\ c.m = "login"
  /\ c.conn = penpal
  /\ c.args[1] = Str("WalletAddress")

\* C36: a requestSignVerify made while the guest handles a wallet login makes
\* its personal_sign request on the provider given in that login() call,
\* with the account given in that call, whatever other logins are pending.
C36_SignedForItsLogin ==
  [][last'.op = "requestSignVerify"
       => \A c \in BagToSet(calls) :
            HandledWalletLogin(c)
              => last'.sent =
                   <<ProviderRequest(ProviderOfLogin(c), "personal_sign",
                                     <<last'.arg[1], c.args[2]>>)>>]_vars

\* The last step was logout(), or the guest's answer to a logout call.
LogoutStep(l) ==
  \/ l.op = "logout"
  \/ l.op = "guestAnswer" /\ l.arg[1] = Str("logout")

\* C37: logout(), with clearAuth true or false, and the guest's answer to it,
\* resolved or rejected, leave connectedProvider and connectedAddress as they
\* were; a requestSignVerify that comes next makes its personal_sign request
\* on the provider and with the address that were set before the logout.
C37_LogoutKeepsSession ==
  [][/\ (LogoutStep(last')
           => UNCHANGED <<connectedProvider, connectedAddress>>)
     /\ ((/\ LogoutStep(last)
          /\ last'.op = "requestSignVerify"
          /\ connectedProvider # NoObject
          /\ connectedAddress # "")
           => last'.sent =
                <<ProviderRequest(connectedProvider, "personal_sign",
                                  <<last'.arg[1], Str(connectedAddress)>>)>>)]_vars

\* logout({clearAuth: true}) has been sent to the guest and the session of
\* the wallet login before it is still in place.
C37_Witness ==
  /\ last.op = "logout"
  /\ last.arg = <<BoolStr(TRUE)>>
  /\ last.res = "sent"
  /\ connectedProvider = "eth"
  /\ connectedAddress = "0xA"

\* The values cp and ca of connectedProvider and connectedAddress are what
\* login() assigns for a request of the given type and account made with the
\* given provider.
SessionOf(cp, ca, type, account, provider) ==
  IF type = Str("WalletAddress")
  THEN cp = provider /\ Str(ca) = account
  ELSE cp = NoObject /\ ca = ""

\* C38: login() has assigned the session fields from its request when the
\* call is sent, and when the guest rejects a login call the fields hold the
\* values of that call's request: the provider and the account of a wallet
\* login, null and "" for an email login.
C38_RejectedLoginKeepsItsValues ==
  [][/\ ((last'.op = "login" /\ last'.res = "sent")
           => SessionOf(connectedProvider', connectedAddress',
                        last'.arg[1], last'.arg[2], Head(last'.arg[6])))
     /\ ((/\ last'.op = "guestAnswer"
          /\ last'.arg[1] = Str("login")
          /\ last'.res = "rejected")
           => SessionOf(connectedProvider', connectedAddress',
                        last'.arg[3], last'.arg[4],
                        ProviderOfLogin([args |-> SubSeq(last'.arg, 3,
                                                         Len(last'.arg))])))]_vars

\* C39: whenever connectedProvider is null, connectedAddress is the empty
\* string: a wallet login sets both and any other login clears both.
C39_NoAddressWithoutProvider ==
  connectedProvider = NoObject => connectedAddress = ""

\* An email login has cleared the session of a wallet login whose call is
\* still with the guest.
C39_Witness ==
  /\ last.op = "login"
  /\ last.arg[1] = Str("Email")
  /\ last.res = "sent"
  /\ connectedProvider = NoObject
  /\ connectedAddress = ""
  /\ \E c \in BagToSet(calls) :
       c.m = "login" /\ c.args[1] = Str("WalletAddress")

\* The object that the host's globals hold for a key now, whatever the
\* registry holds.
LiveGlobal(providerKey) ==
  IF SegmentsPresent(win, PathOfKey(providerKey))
  THEN WindowObject(PathOfKey(providerKey)) ELSE NoObject

\* C40: the outcome of requestWalletProvider, subscribeWalletEvents and
\* unsubscribeWalletEvents for a key is decided by the object the host's
\* globals hold for it at the call (and, for the subscriptions, by the slots
\* recorded), never by the registry or by what the guest was told: the
\* request is made on that object, the handler is attached to or detached
\* from that object, and the call fails or is ignored exactly when the
\* globals hold no usable object.
C40_LiveGlobalsDecide ==
  [][LET live == LiveGlobal(last'.arg[1])
         slot == SlotKey(last'.arg[2], last'.arg[3])
         recorded == /\ MapHas(eventListeners, HandlersKey(last'.arg[1]))
                     /\ MapHas(HandlerMapOf(last'.arg[1]), slot)
     IN /\ (last'.op = "requestWalletProvider"
              => IF live = NoObject
                 THEN last'.res = "ProviderNotFound" /\ last'.sent = <<>>
                 ELSE /\ last'.res = Head(last'.arg[3])
                      /\ last'.sent =
                           <<Call("provider.request",
                                  <<Str(live), last'.arg[2]>>, 0, 0)>>)
        /\ (last'.op = "subscribe"
              => IF live = NoObject \/ "on" \notin Caps(live)
                 THEN last'.res = "ignored" /\ UNCHANGED handlers
                 ELSE /\ last'.res = "ok"
                      /\ handlers' =
                           Append(handlers,
                                  Handler(live, last'.arg[1], last'.arg[2],
                                          last'.arg[3])))
        /\ (last'.op = "unsubscribe"
              => IF /\ live # NoObject
                    /\ "removeListener" \in Caps(live)
                    /\ recorded
                 THEN /\ last'.res = "removed"
                      /\ handlers' =
                           RemoveListener(handlers, live, last'.arg[2],
                                          HandlerMapOf(last'.arg[1])[slot])
                 ELSE last'.res = "miss" /\ UNCHANGED handlers)]_vars

\* A request answered by window.okxwallet, which appeared after init()'s
\* scan: the key is not in the registry and the guest was never told of it.
C40_Witness ==
  /\ last.op = "requestWalletProvider"
  /\ last.arg[1] = KeyOkx
  /\ last.res = "0xSIG"
  /\ penpal # 0
  /\ KeyOkx \notin KeySet(availableProviders)
  /\ KeyOkx \notin Answered
  /\ KeyEthereum \in Accepted

====
